---------------------------- MODULE Spec2Model ----------------------------
(***************************************************************************)
(* img2ascii.py: an image is resampled to a character grid, every pixel is *)
(* tone-mapped (contrast, brightness, clamp, gamma, clamp), quantized to a *)
(* glyph of a ramp and written out, optionally behind a true-colour escape.*)
(*                                                                         *)
(* Numbers.  A Python float is modelled by an exact rational <<n, d>> with *)
(* d > 0 in lowest terms, so the linear steps of the pipeline and int()    *)
(* are exact.  lum ** gamma is exact for an integer gamma; for a           *)
(* fractional gamma it is rounded down to a multiple of 1/PowScale, the    *)
(* way a float pow is rounded to the float grid.  NaN and the infinities   *)
(* are not modelled.                                                       *)
(*                                                                         *)
(* Text.  A str is a sequence of one-character strings; the escape         *)
(* character \x1b is written "ESC" and the line break "LF".                *)
(***************************************************************************)
EXTENDS Integers, Sequences, FiniteSets

---------------------------------------------------------------------------
(* Rational arithmetic (the float operators of the source)                 *)

Abs(n) == IF n < 0 THEN -n ELSE n

RECURSIVE Gcd(_, _)
Gcd(a, b) == IF b = 0 THEN a ELSE Gcd(b, a % b)

\* the rational n/d (d # 0) in lowest terms with a positive denominator
Rat(n, d) ==
    LET k == Gcd(Abs(n), Abs(d))
        s == IF d < 0 THEN -1 ELSE 1
    IN  <<(s * n) \div k, (s * d) \div k>>

Zero == <<0, 1>>
One == <<1, 1>>
Half == <<1, 2>>

RAdd(a, b) == Rat(a[1] * b[2] + b[1] * a[2], a[2] * b[2])
RSub(a, b) == Rat(a[1] * b[2] - b[1] * a[2], a[2] * b[2])
RMul(a, b) == Rat(a[1] * b[1], a[2] * b[2])
RDiv(a, b) == Rat(a[1] * b[2], a[2] * b[1])
RLt(a, b) == a[1] * b[2] < b[1] * a[2]
RLe(a, b) == a[1] * b[2] <= b[1] * a[2]
IsInt(a) == a[2] = 1

\* int(a) of a float: truncation toward zero
Trunc(a) == IF a[1] >= 0 THEN a[1] \div a[2] ELSE -((-a[1]) \div a[2])

Max(a, b) == IF a >= b THEN a ELSE b

---------------------------------------------------------------------------
(* lum ** gamma                                                            *)

\* resolution of a rounded power: PowBits binary digits
PowBits == 14
PowScale == 2 ^ PowBits

\* floor(rem/d * 2^i) for 0 <= rem < d, by long division
RECURSIVE FracBits(_, _, _)
FracBits(rem, d, i) ==
    IF i = 0 THEN 0
    ELSE IF 2 * rem >= d THEN 2 ^ (i - 1) + FracBits(2 * rem - d, d, i - 1)
    ELSE FracBits(2 * rem, d, i - 1)

\* floor(a * PowScale) for a >= 0
ToFix(a) == (a[1] \div a[2]) * PowScale + FracBits(a[1] % a[2], a[2], PowBits)

FixMul(u, v) == (u * v) \div PowScale

RECURSIVE IsqrtIn(_, _, _)
IsqrtIn(n, lo, hi) ==
    IF lo = hi THEN lo
    ELSE LET mid == (lo + hi + 1) \div 2
         IN  IF mid * mid <= n THEN IsqrtIn(n, mid, hi)
             ELSE IsqrtIn(n, lo, mid - 1)

\* the largest r with r * r <= u * v
Isqrt(u, v) == IsqrtIn(u * v, 0, Max(u, v))

\* u ** k for an integer k >= 0
RECURSIVE FixIntPow(_, _)
FixIntPow(u, k) == IF k = 0 THEN PowScale ELSE FixMul(u, FixIntPow(u, k - 1))

\* u ** (rem/q) for 0 <= rem < q: the binary digits of rem/q select the
\* repeated square roots of u that are multiplied into acc
RECURSIVE FixFracPow(_, _, _, _, _)
FixFracPow(rt, rem, q, acc, i) ==
    IF i = 0 \/ rem = 0 THEN acc
    ELSE LET r2 == Isqrt(rt, PowScale)
         IN  IF 2 * rem >= q
             THEN FixFracPow(r2, 2 * rem - q, q, FixMul(acc, r2), i - 1)
             ELSE FixFracPow(r2, 2 * rem, q, acc, i - 1)

\* u ** e for u >= 0 and a rational e >= 0, in units of 1/PowScale
FixPow(u, e) ==
    LET ip == e[1] \div e[2]
    IN  FixFracPow(u, e[1] - ip * e[2], e[2], FixIntPow(u, ip), PowBits)

RAbs(a) == <<Abs(a[1]), a[2]>>

\* |a| ** e for a # 0 and a rational e > 0, rounded down to a multiple of
\* 1/PowScale; a base above 1 is raised as the reciprocal of its reciprocal
Magnitude(a, e) ==
    IF Abs(a[1]) <= a[2]
    THEN Rat(FixPow(ToFix(RAbs(a)), e), PowScale)
    ELSE Rat(PowScale, FixPow(ToFix(<<a[2], Abs(a[1])>>), e))

\* what a ** e raises, "" when it returns a float:
\*   0.0 to a negative power is a ZeroDivisionError; a negative base to a
\*   fractional power is a complex number, which the clamp that follows
\*   cannot compare with a float (TypeError)
PowRaises(a, e) ==
    IF a = Zero /\ RLt(e, Zero) THEN "ZeroDivisionError"
    ELSE IF RLt(a, Zero) /\ ~IsInt(e) THEN "TypeError"
    ELSE ""

\* a ** e where PowRaises(a, e) = "": exact where the result is 0, 1, a or
\* 1/a, rounded otherwise
Pow(a, e) ==
    LET sign == IF RLt(a, Zero) /\ e[1] % 2 = 1 THEN -1 ELSE 1
        mag == Magnitude(a, RAbs(e))
    IN  IF e = Zero THEN One
        ELSE IF a = Zero THEN Zero
        ELSE IF e = One THEN a
        ELSE IF e = Rat(-1, 1) THEN RDiv(One, a)
        ELSE IF RLt(e, Zero) THEN <<sign * mag[2], mag[1]>>
        ELSE <<sign * mag[1], mag[2]>>

---------------------------------------------------------------------------
(* Module-level definitions of img2ascii.py                                *)

DEFAULT_RAMP ==
    <<" ", ".", ",", ":", ";", "i", "1", "t", "f", "L", "C", "G", "0", "8", "@">>

ALT_RAMP == <<" ", ".", ":", "-", "=", "+", "*", "#", "%", "@">>

\* clamp without its upper bound
clamp_NoUpper(n, lo, hi) == IF RLt(n, lo) THEN lo ELSE n

\* clamp without its lower bound
clamp_NoLower(n, lo, hi) == IF RLt(hi, n) THEN hi ELSE n

clamp(n, lo, hi) == IF RLt(n, lo) THEN lo ELSE IF RLt(hi, n) THEN hi ELSE n

rgb_to_luma(r, g, b) ==
    RAdd(RAdd(RMul(Rat(2126, 10000), Rat(r, 1)),
              RMul(Rat(7152, 10000), Rat(g, 1))),
         RMul(Rat(722, 10000), Rat(b, 1)))

ESC == "ESC"
LF == "LF"

Digits == <<"0", "1", "2", "3", "4", "5", "6", "7", "8", "9">>

\* str(n) of an int n >= 0: its decimal digits
RECURSIVE Dec(_)
Dec(n) == IF n < 10 THEN <<Digits[n + 1]>>
          ELSE Dec(n \div 10) \o <<Digits[(n % 10) + 1]>>

ansi_fg(r, g, b) ==
    <<ESC, "[", "3", "8", ";", "2", ";">> \o Dec(r) \o <<";">> \o Dec(g)
        \o <<";">> \o Dec(b) \o <<"m">>

RESET == <<ESC, "[", "0", "m">>

---------------------------------------------------------------------------
(* State                                                                   *)

VARIABLES
    argv,        \* the command line: the options given and their values
    tty,         \* what terminal size detection finds
    file,        \* the image file: its size and its pixel data
    pc,          \* position in main / image_to_ascii
    exc,         \* the exception that ended the run, "" if none
    args,        \* argparse's namespace
    term_w, width, ramp,
    img, orig_w, orig_h, height, ramp_len,
    lines, line_parts, y, x, r, g, b, lum, idx, ch,
    out,         \* the value image_to_ascii returns
    stdout       \* what print has written

vars == <<argv, tty, file, pc, exc, args, term_w, width, ramp, img, orig_w,
          orig_h, height, ramp_len, lines, line_parts, y, x, r, g, b, lum,
          idx, ch, out, stdout>>

main_vars == <<args, term_w, width, ramp>>
image_vars == <<img, orig_w, orig_h, height, ramp_len>>
row_vars == <<lines, line_parts, y, x>>
pixel_vars == <<r, g, b, lum, idx, ch>>
env_vars == <<argv, tty, file>>

\* the value of option name, its argparse default when it is not given
Opt(name, default) == IF name \in argv.given THEN argv[name] ELSE default

\* shutil.get_terminal_size(fallback=(100, 30)).columns
get_terminal_columns == IF tty.ok THEN tty.columns ELSE 100

\* the parameters main passes to image_to_ascii
color == ~args.no_color
brightness == args.brightness
contrast == args.contrast
gamma == args.gamma
aspect == args.aspect

inv_255 == RDiv(One, Rat(255, 1))

\* img.getpixel((px, py)): the resampler is external; the resampled grid
\* repeats the file's pixel data in row-major order
getpixel(px, py) == img.data[((py * img.size[1] + px) % Len(img.data)) + 1]

\* "".join(parts)
RECURSIVE JoinParts(_)
JoinParts(parts) ==
    IF parts = <<>> THEN <<>> ELSE Head(parts) \o JoinParts(Tail(parts))

\* "\n".join(ls)
RECURSIVE JoinLines(_)
JoinLines(ls) ==
    IF ls = <<>> THEN <<>>
    ELSE IF Len(ls) = 1 THEN Head(ls)
    ELSE Head(ls) \o <<LF>> \o JoinLines(Tail(ls))

\* round(a) of a float a >= 0, a tie going to the even neighbour
Round(a) ==
    LET lo == a[1] \div a[2]
        twice == 2 * (a[1] % a[2])
    IN  IF twice < a[2] THEN lo
        ELSE IF twice > a[2] THEN lo + 1
        ELSE IF lo % 2 = 0 THEN lo ELSE lo + 1

\* the height with round() in the place of int()
TargetHeight_Rounded(ow, oh, w, asp) ==
    Max(1, Round(RMul(RMul(RDiv(Rat(oh, 1), Rat(ow, 1)), Rat(w, 1)), asp)))

\* the height image_to_ascii computes
TargetHeight(ow, oh, w, asp) ==
    Max(1, Trunc(RMul(RMul(RDiv(Rat(oh, 1), Rat(ow, 1)), Rat(w, 1)), asp)))

(* The runs that are checked: command lines, terminals and image files.    *)
(* On every one of these runs the exact arithmetic of this module and the  *)
(* floats of img2ascii.py give the same text or the same exception.        *)

MaxWidth == 2        \* --width values given on the command line
MaxColumns == 2      \* terminal widths that detection finds
MaxOrig == 3         \* source image sizes
MaxDimWidth == 3     \* --width values of the dimension runs

Black == <<0, 0, 0>>
White == <<255, 255, 255>>
Gray == <<128, 128, 128>>
Red == <<255, 0, 0>>
Blue == <<0, 0, 255>>
Olive == <<107, 142, 35>>

\* a command line with no option given
NoOptions ==
    [given |-> {}, width |-> 0, ramp |-> "", custom_ramp |-> <<>>,
     brightness |-> Zero, contrast |-> Zero, gamma |-> Zero, aspect |-> Zero]

\* the command line a with option name given as v
With(a, name, v) == [a EXCEPT ![name] = v, !.given = @ \cup {name}]

\* the command line a with the flag given when on
Flag(a, name, on) == IF on THEN [a EXCEPT !.given = @ \cup {name}] ELSE a

\* the command line a with every option of the set opts (<<name, value>>)
RECURSIVE WithAll(_, _)
WithAll(a, opts) ==
    IF opts = {} THEN a
    ELSE LET o == CHOOSE o \in opts : TRUE
         IN  WithAll(With(a, o[1], o[2]), opts \ {o})

Detected(c) == [ok |-> TRUE, columns |-> c]
Undetected == [ok |-> FALSE, columns |-> 0]

File(w, h, data) == [size |-> <<w, h>>, data |-> data]

Scenario(a, t, f) == [argv |-> a, tty |-> t, file |-> f]

\* Width resolution: every way of giving --width, on every terminal
WidthScenarios ==
    { Scenario(Flag(WithAll(NoOptions, w), "no_color", nc), t,
               File(200, 1, <<Red, Olive, Black>>)) :
        w \in {{}} \cup {{<<"width", n>>} : n \in (-1) .. MaxWidth},
        nc \in {TRUE},
        t \in {Undetected} \cup {Detected(c) : c \in 1 .. MaxColumns} }

\* Ramp selection and rendering: presets and custom ramps, with and
\* without colour, on grids of one to three rows
RampScenarios ==
    { Scenario(Flag(WithAll(NoOptions, rp \cup cr \cup tone
                                       \cup {<<"width", w>>}), "no_color", nc),
               Detected(MaxColumns), File(2, h, data)) :
        rp \in {{}, {<<"ramp", "default">>}, {<<"ramp", "alt">>}},
        cr \in {{}} \cup {{<<"custom_ramp", c>>} :
                  c \in {<<>>, <<"#">>, <<" ", "#">>, <<".", "o", "O">>}},
        tone \in {{}, {<<"gamma", Rat(-1, 1)>>},
                  {<<"contrast", Rat(2, 1)>>, <<"brightness", Rat(1, 2)>>}},
        w \in 1 .. MaxWidth,
        nc \in BOOLEAN,
        h \in {1, 3, 5},
        data \in {<<Red, Olive, White, Gray, Blue>>, <<White, Black>>} }

CliScenarios == WidthScenarios \cup RampScenarios

\* Tone mapping: every pair of pixels under every combination of
\* brightness, contrast and gamma, on ramps of 1, 2, 10 and 15 glyphs
BrightnessValues == {Rat(-1, 2), Rat(1, 1), Rat(105, 100), Rat(2, 1)}
ContrastValues == {Rat(-2, 1), Zero, Rat(125, 100), Rat(2, 1)}
GammaValues == {Rat(-1, 1), Zero, Rat(85, 100), Rat(1, 1), Rat(2, 1)}
Pixels == {Black, White, Gray, Red, Blue, Olive}

ToneOptions ==
    {{}} \cup { {<<"brightness", br>>, <<"contrast", co>>, <<"gamma", ga>>} :
                 br \in BrightnessValues, co \in ContrastValues,
                 ga \in GammaValues }

ToneScenarios ==
    { Scenario(Flag(WithAll(NoOptions, {<<"width", 2>>} \cup tone \cup rp),
                    "no_color", TRUE),
               Undetected, File(4, 1, <<p, q>>)) :
        tone \in ToneOptions,
        rp \in {{}, {<<"ramp", "default">>}, {<<"custom_ramp", <<"#">>>>},
                {<<"custom_ramp", <<" ", "#">>>>}},
        p \in Pixels, q \in Pixels }

\* Dimensions: every source size, width and aspect factor, and the
\* 100x50 source at width 80
AspectOptions ==
    {{}} \cup {{<<"aspect", a>>} : a \in {Rat(1, 2), Rat(1, 1), Rat(2, 1)}}

DimScenarios ==
    { Scenario(Flag(WithAll(NoOptions, {<<"width", w>>} \cup asp),
                    "no_color", TRUE),
               Undetected, File(ow, oh, <<White, Gray, Black>>)) :
        ow \in 1 .. MaxOrig, oh \in 1 .. MaxOrig, w \in 1 .. MaxDimWidth,
        asp \in AspectOptions }
    \cup { Scenario(Flag(With(NoOptions, "width", 80), "no_color", TRUE),
                    Undetected, File(100, 50, <<White, Gray, Black>>)) }

InitWith(scenarios) ==
    /\ \E s \in scenarios : argv = s.argv /\ tty = s.tty /\ file = s.file
    /\ pc = "parse"
    /\ exc = ""
    /\ args = [width |-> 0, ramp |-> "", custom_ramp |-> <<>>,
               no_color |-> FALSE, brightness |-> Zero, contrast |-> Zero,
               gamma |-> Zero, aspect |-> Zero]
    /\ term_w = 0 /\ width = 0 /\ ramp = <<>>
    /\ img = [size |-> <<0, 0>>, data |-> <<>>]
    /\ orig_w = 0 /\ orig_h = 0 /\ height = 0 /\ ramp_len = 0
    /\ lines = <<>> /\ line_parts = <<>> /\ y = 0 /\ x = 0
    /\ r = 0 /\ g = 0 /\ b = 0 /\ lum = Zero /\ idx = 0 /\ ch = ""
    /\ out = <<>> /\ stdout = <<>>

---------------------------------------------------------------------------
(* main                                                                    *)

\* parser.parse_args()
ParseArgs ==
    /\ pc = "parse"
    /\ args' = [width |-> Opt("width", 0),
                ramp |-> Opt("ramp", "alt"),
                custom_ramp |-> Opt("custom_ramp", <<>>),
                no_color |-> "no_color" \in argv.given,
                brightness |-> Opt("brightness", Rat(105, 100)),
                contrast |-> Opt("contrast", Rat(125, 100)),
                gamma |-> Opt("gamma", Rat(85, 100)),
                aspect |-> Opt("aspect", Rat(55, 100))]
    /\ pc' = "width"
    /\ UNCHANGED <<env_vars, exc, term_w, width, ramp, image_vars, row_vars,
                   pixel_vars, out, stdout>>

\* --width 0 taken as a width
ResolveWidth_ZeroKept ==
    /\ pc = "width"
    /\ term_w' = get_terminal_columns
    /\ width' = IF args.width >= 0 THEN args.width ELSE term_w'
    /\ pc' = "ramp"
    /\ UNCHANGED <<env_vars, exc, args, ramp, image_vars, row_vars, pixel_vars,
                   out, stdout>>

ResolveWidth ==
    /\ pc = "width"
    /\ term_w' = get_terminal_columns
    /\ width' = IF args.width > 0 THEN args.width ELSE term_w'
    /\ pc' = "ramp"
    /\ UNCHANGED <<env_vars, exc, args, ramp, image_vars, row_vars, pixel_vars,
                   out, stdout>>

\* the presets the wrong way round
SelectRamp_Swapped ==
    /\ pc = "ramp"
    /\ ramp' = IF args.custom_ramp # <<>> THEN args.custom_ramp
               ELSE IF args.ramp = "default" THEN ALT_RAMP ELSE DEFAULT_RAMP
    /\ pc' = "open"
    /\ UNCHANGED <<env_vars, exc, args, term_w, width, image_vars, row_vars,
                   pixel_vars, out, stdout>>

SelectRamp ==
    /\ pc = "ramp"
    /\ ramp' = IF args.custom_ramp # <<>> THEN args.custom_ramp
               ELSE IF args.ramp = "default" THEN DEFAULT_RAMP ELSE ALT_RAMP
    /\ pc' = "open"
    /\ UNCHANGED <<env_vars, exc, args, term_w, width, image_vars, row_vars,
                   pixel_vars, out, stdout>>

\* img = Image.open(args.image)
OpenImage ==
    /\ pc = "open"
    /\ img' = file
    /\ pc' = "dims"
    /\ UNCHANGED <<env_vars, exc, main_vars, orig_w, orig_h, height, ramp_len,
                   row_vars, pixel_vars, out, stdout>>

---------------------------------------------------------------------------
(* image_to_ascii                                                          *)

\* orig_w, orig_h = img.size and the target height
Dimensions ==
    /\ pc = "dims"
    /\ orig_w' = img.size[1]
    /\ orig_h' = img.size[2]
    /\ height' = TargetHeight(img.size[1], img.size[2], width, aspect)
    /\ pc' = "resize"
    /\ UNCHANGED <<env_vars, exc, main_vars, img, ramp_len, row_vars,
                   pixel_vars, out, stdout>>

Resize ==
    /\ pc = "resize"
    /\ img' = [size |-> <<width, height>>, data |-> img.data]
    /\ ramp_len' = Len(ramp)
    /\ lines' = <<>>
    /\ y' = 0
    /\ pc' = "row"
    /\ UNCHANGED <<env_vars, exc, main_vars, orig_w, orig_h, height,
                   line_parts, x, pixel_vars, out, stdout>>

\* for y in range(height): the next row, or the end of the loop
RowStart ==
    /\ pc = "row"
    /\ IF y < height
       THEN /\ line_parts' = <<>>
            /\ x' = 0
            /\ pc' = "pixel"
       ELSE /\ pc' = "join"
            /\ UNCHANGED <<line_parts, x>>
    /\ UNCHANGED <<env_vars, exc, main_vars, image_vars, lines, y, pixel_vars,
                   out, stdout>>

\* for x in range(width): the next pixel, or the end of the row
PixelRead ==
    /\ pc = "pixel"
    /\ IF x < width
       THEN /\ r' = getpixel(x, y)[1]
            /\ g' = getpixel(x, y)[2]
            /\ b' = getpixel(x, y)[3]
            /\ pc' = "luma"
       ELSE /\ pc' = "rowend"
            /\ UNCHANGED <<r, g, b>>
    /\ UNCHANGED <<env_vars, exc, main_vars, image_vars, row_vars, lum, idx,
                   ch, out, stdout>>

LumaStep(rr, gg, bb) == RMul(rgb_to_luma(rr, gg, bb), inv_255)
\* the contrast step with its difference the wrong way round
ContrastStep_Inverted(l) == RAdd(RMul(RSub(Half, l), contrast), Half)

ContrastStep(l) == RAdd(RMul(RSub(l, Half), contrast), Half)
BrightnessStep(l) == RMul(l, brightness)
\* the tone mapping without the clamp before gamma
ClampStep_Skipped(l) == l

ClampStep(l) == clamp(l, Zero, One)
GammaStep(l) == clamp(Pow(l, gamma), Zero, One)
IndexStep(l) == Trunc(RMul(l, Rat(ramp_len - 1, 1)))

ToneStep(from, to, value) ==
    /\ pc = from
    /\ lum' = value
    /\ pc' = to
    /\ UNCHANGED <<env_vars, exc, main_vars, image_vars, row_vars, r, g, b,
                   idx, ch, out, stdout>>

Luma == ToneStep("luma", "contrast", LumaStep(r, g, b))
Contrast == ToneStep("contrast", "brightness", ContrastStep(lum))
Brightness == ToneStep("brightness", "clamp", BrightnessStep(lum))
Clamp == ToneStep("clamp", "gamma", ClampStep(lum))

\* lum = clamp(lum ** gamma, 0.0, 1.0), or the exception ** raises
Gamma ==
    /\ pc = "gamma"
    /\ IF PowRaises(lum, gamma) # ""
       THEN /\ exc' = PowRaises(lum, gamma)
            /\ pc' = "raised"
            /\ UNCHANGED lum
       ELSE /\ lum' = GammaStep(lum)
            /\ pc' = "index"
            /\ UNCHANGED exc
    /\ UNCHANGED <<env_vars, main_vars, image_vars, row_vars, r, g, b, idx, ch,
                   out, stdout>>

Index ==
    /\ pc = "index"
    /\ idx' = IndexStep(lum)
    /\ pc' = "lookup"
    /\ UNCHANGED <<env_vars, exc, main_vars, image_vars, row_vars, r, g, b,
                   lum, ch, out, stdout>>

\* ch = ramp[idx]: a negative idx counts from the end, an idx outside
\* -len .. len-1 is an IndexError
Lookup ==
    /\ pc = "lookup"
    /\ IF idx >= ramp_len \/ idx < -ramp_len
       THEN /\ exc' = "IndexError"
            /\ pc' = "raised"
            /\ UNCHANGED ch
       ELSE /\ ch' = IF idx >= 0 THEN ramp[idx + 1] ELSE ramp[ramp_len + idx + 1]
            /\ pc' = "emit"
            /\ UNCHANGED exc
    /\ UNCHANGED <<env_vars, main_vars, image_vars, row_vars, r, g, b, lum,
                   idx, out, stdout>>

\* the escape written after its glyph
EmitPart_EscapeAfter == IF color THEN <<ch>> \o ansi_fg(r, g, b) ELSE <<ch>>

EmitPart == IF color THEN ansi_fg(r, g, b) \o <<ch>> ELSE <<ch>>

\* the row built right to left
Emit_Reversed ==
    /\ pc = "emit"
    /\ line_parts' = <<EmitPart>> \o line_parts
    /\ x' = x + 1
    /\ pc' = "pixel"
    /\ UNCHANGED <<env_vars, exc, main_vars, image_vars, lines, y, pixel_vars,
                   out, stdout>>

Emit ==
    /\ pc = "emit"
    /\ line_parts' = Append(line_parts, EmitPart)
    /\ x' = x + 1
    /\ pc' = "pixel"
    /\ UNCHANGED <<env_vars, exc, main_vars, image_vars, lines, y, pixel_vars,
                   out, stdout>>

RowParts == IF color THEN Append(line_parts, RESET) ELSE line_parts

RowEnd ==
    /\ pc = "rowend"
    /\ line_parts' = RowParts
    /\ lines' = Append(lines, JoinParts(RowParts))
    /\ y' = y + 1
    /\ pc' = "row"
    /\ UNCHANGED <<env_vars, exc, main_vars, image_vars, x, pixel_vars, out,
                   stdout>>

\* return "\n".join(lines)
Join ==
    /\ pc = "join"
    /\ out' = JoinLines(lines)
    /\ pc' = "print"
    /\ UNCHANGED <<env_vars, exc, main_vars, image_vars, row_vars, pixel_vars,
                   stdout>>

\* print(out); return 0
PrintOut ==
    /\ pc = "print"
    /\ stdout' = out \o <<LF>>
    /\ pc' = "done"
    /\ UNCHANGED <<env_vars, exc, main_vars, image_vars, row_vars, pixel_vars,
                   out>>

Next ==
    \/ ParseArgs
    \/ ResolveWidth
    \/ SelectRamp
    \/ OpenImage
    \/ Dimensions
    \/ Resize
    \/ RowStart
    \/ PixelRead
    \/ Luma
    \/ Contrast
    \/ Brightness
    \/ Clamp
    \/ Gamma
    \/ Index
    \/ Lookup
    \/ Emit
    \/ RowEnd
    \/ Join
    \/ PrintOut

---------------------------------------------------------------------------
(* Reading the returned text                                               *)

Past(labels) == pc \notin labels
Returned == pc \in {"print", "done"}

\* the members of a set of positions in increasing order
Ascending(S) ==
    [k \in 1 .. Cardinality(S) |->
        CHOOSE i \in S : Cardinality({j \in S : j < i}) = k - 1]

\* the lines of out: the stretches between its line breaks
Lines ==
    LET brk == Ascending({i \in 1 .. Len(out) : out[i] = LF})
        n == Len(brk)
    IN  [k \in 1 .. n + 1 |->
            SubSeq(out, IF k = 1 THEN 1 ELSE brk[k - 1] + 1,
                        IF k = n + 1 THEN Len(out) ELSE brk[k] - 1)]

\* position i of line lies inside an escape sequence ESC ... m
InEscape(line, i) ==
    \E j \in 1 .. i : /\ line[j] = ESC
                      /\ \A k \in j .. i - 1 : line[k] # "m"

\* the positions of the glyphs of a line, left to right
GlyphPositions(line) ==
    Ascending({i \in 1 .. Len(line) : ~InEscape(line, i)})

\* the ramp index a glyph stands for (ramps of distinct glyphs)
RampIndex(c) == (CHOOSE k \in 1 .. Len(ramp) : ramp[k] = c) - 1

\* the input luminance of a pixel, in units of 1/(10000 * 255)
InputLum(p) == 2126 * p[1] + 7152 * p[2] + 722 * p[3]

Cells == (0 .. width - 1) \X (0 .. height - 1)

\* the indices the returned text shows, by cell
ShownIndices ==
    LET ls == Lines
        gp == [k \in 1 .. Len(ls) |-> GlyphPositions(ls[k])]
    IN  [c \in Cells |-> RampIndex(ls[c[2] + 1][gp[c[2] + 1][c[1] + 1]])]

---------------------------------------------------------------------------
(* C1: at the quantizer the luminance lies in [0, 1], and the index used   *)
(* for ramp[idx] lies in 0 .. N-1, for every pixel, ramp and tone setting  *)
C1_IndexInRange ==
    /\ pc = "index" => RLe(Zero, lum) /\ RLe(lum, One)
    /\ pc = "lookup" => /\ RLe(Zero, lum) /\ RLe(lum, One)
                        /\ idx \in 0 .. ramp_len - 1

C1_Witness ==
    /\ pc = "lookup" /\ lum = One /\ ramp_len = 15 /\ idx = 14

(* C8: the tone mapping never raises, and the base of ** is never negative *)
C8_ToneNeverRaises ==
    /\ exc = ""
    /\ pc = "gamma" => RLe(Zero, lum)

C3_Unit(l) == IF l[1] < 0 THEN Zero ELSE IF l[1] > l[2] THEN One ELSE l
C3_lum0 == Rat(2126 * r + 7152 * g + 722 * b, 10000 * 255)
C3_lum1 == RAdd(RMul(RSub(C3_lum0, Half), args.contrast), Half)
C3_lum2 == RMul(C3_lum1, args.brightness)
C3_lum3 == C3_Unit(C3_lum2)
C3_lum4 == C3_Unit(Pow(C3_lum3, args.gamma))

(* C3: the luminance is lum0 = luma/255, lum1 = (lum0 - 0.5)*contrast +    *)
(* 0.5, lum2 = lum1*brightness, lum3 = clamp(lum2), lum4 = clamp(lum3 **   *)
(* gamma), each step taken in this order                                   *)
C3_PipelineOrder ==
    /\ pc = "contrast" => lum = C3_lum0
    /\ pc = "brightness" => lum = C3_lum1
    /\ pc = "clamp" => lum = C3_lum2
    /\ pc = "gamma" => lum = C3_lum3
    /\ pc \in {"index", "lookup", "emit"} => lum = C3_lum4

\* a pixel whose luminance both clamps and the gamma step change
C3_Witness ==
    /\ pc = "emit" /\ <<r, g, b>> = Gray
    /\ args.contrast = Rat(125, 100) /\ args.brightness = Rat(105, 100)
    /\ args.gamma = Rat(85, 100)
    /\ lum = C3_lum4 /\ lum # C3_lum3

C4_Shown ==
    LET shown == ShownIndices
    IN  \A c \in Cells : \A d \in Cells :
            InputLum(getpixel(c[1], c[2])) <= InputLum(getpixel(d[1], d[2]))
                => shown[c] <= shown[d]

(* C4: a pixel of lower or equal input luminance never gets a higher ramp  *)
(* index (as claimed: for any brightness, contrast and gamma)              *)
C4_MonotoneAlways == Returned => C4_Shown

(* C4 as amended: the same, for a contrast >= 0 and a brightness >= 0      *)
C4_MonotoneNonNegative ==
    (Returned /\ RLe(Zero, args.contrast) /\ RLe(Zero, args.brightness))
        => C4_Shown

C4_Witness ==
    /\ pc = "done"
    /\ args.contrast = Rat(2, 1) /\ args.brightness = Rat(1, 1)
    /\ args.gamma = Rat(2, 1)
    /\ \E c \in Cells : \E d \in Cells :
          /\ InputLum(getpixel(c[1], c[2])) < InputLum(getpixel(d[1], d[2]))
          /\ ShownIndices[c] < ShownIndices[d]

C10_Defaults ==
    /\ argv.given \cap {"brightness", "contrast", "gamma"} = {}
    /\ args.brightness = Rat(105, 100) /\ args.contrast = Rat(125, 100)
    /\ args.gamma = Rat(85, 100)

(* C10: a black pixel under the default brightness, contrast and gamma is  *)
(* negative after contrast and brightness, 0 after the clamp and after     *)
(* gamma, and gets index 0 and the first glyph of every ramp               *)
C10_BlackIsFirstGlyph ==
    (Past({"parse"}) /\ C10_Defaults /\ <<r, g, b>> = Black) =>
        /\ pc = "clamp" => lum[1] < 0
        /\ pc = "gamma" => lum = Zero
        /\ pc \in {"index", "lookup", "emit"} => lum = Zero
        /\ pc \in {"lookup", "emit"} => idx = 0
        /\ pc = "emit" => ch = ramp[1]

C10_Witness ==
    /\ pc = "emit" /\ C10_Defaults /\ <<r, g, b>> = Black
    /\ ramp_len = 15 /\ ch = " "

C2_Num == file.size[2] * width * args.aspect[1]
C2_Den == file.size[1] * args.aspect[2]

\* round(C2_Num / C2_Den), a tie going to the even neighbour
C2_Round ==
    LET lo == C2_Num \div C2_Den
        twice == 2 * (C2_Num % C2_Den)
    IN  IF twice < C2_Den THEN lo
        ELSE IF twice > C2_Den THEN lo + 1
        ELSE IF lo % 2 = 0 THEN lo ELSE lo + 1

C2_Sized == Past({"parse", "width", "ramp", "open", "dims"})

(* C2: the target height is max(1, round(sourceHeight / sourceWidth *      *)
(* width * aspect)) (as claimed: rounded to the nearest integer)           *)
C2_HeightRounded == C2_Sized => height = Max(1, C2_Round)

(* C2 as amended: the target height is the product truncated to an        *)
(* integer and then raised to at least 1; it is 22 for a 100x50 source at  *)
(* width 80 and aspect 0.55                                                *)
C2_HeightTruncated ==
    C2_Sized =>
        /\ height >= 1
        /\ \/ height = 1 /\ C2_Num < C2_Den
           \/ height * C2_Den <= C2_Num /\ C2_Num < (height + 1) * C2_Den
        /\ (file.size = <<100, 50>> /\ width = 80 /\ args.aspect = Rat(55, 100))
              => height = 22

\* 3/1 * 1 * 0.55 = 1.65 is cut to 1, not rounded to 2
C2_Witness ==
    /\ pc = "resize" /\ file.size = <<1, 3>> /\ width = 1
    /\ args.aspect = Rat(55, 100) /\ height = 1

C5_Escape(p) ==
    <<ESC, "[", "3", "8", ";", "2", ";">> \o Dec(p[1]) \o <<";">>
        \o Dec(p[2]) \o <<";">> \o Dec(p[3]) \o <<"m">>

C5_Reset == <<ESC, "[", "0", "m">>

C5_LineColoured(line, k) ==
    LET n == Len(line)
        gp == GlyphPositions(line)
    IN  /\ Len(gp) = width
        /\ \A c \in 1 .. width :
              LET e == C5_Escape(getpixel(c - 1, k - 1))
              IN  /\ gp[c] > Len(e)
                  /\ SubSeq(line, gp[c] - Len(e), gp[c] - 1) = e
        /\ n >= 4
        /\ SubSeq(line, n - 3, n) = C5_Reset
        /\ gp[width] = n - 4
        /\ Cardinality({i \in 1 .. n - 3 : SubSeq(line, i, i + 3) = C5_Reset}) = 1

(* C5: with colour every glyph directly follows the escape ESC[38;2;R;G;Bm *)
(* of its pixel's resampled R, G, B, and every line ends with ESC[0m, which *)
(* occurs once in the line; without colour the text holds no escape        *)
C5_ColourEscapes ==
    Returned =>
        IF ~args.no_color
        THEN LET ls == Lines
             IN  /\ Len(ls) = height
                 /\ \A k \in 1 .. height : C5_LineColoured(ls[k], k)
        ELSE \A i \in 1 .. Len(out) : out[i] # ESC

C5_Witness ==
    /\ pc = "done" /\ ~args.no_color /\ width = 2 /\ height = 2
    /\ SubSeq(out, 1, 15) = C5_Escape(Red)
    /\ SubSeq(out, Len(out) - 3, Len(out)) = C5_Reset

C6_Glyph(p) ==
    ramp[IndexStep(GammaStep(ClampStep(BrightnessStep(ContrastStep(
             LumaStep(p[1], p[2], p[3])))))) + 1]

(* C6: the returned text is height lines of width glyphs, the k-th glyph   *)
(* of line y being the glyph of pixel (k, y), with one line break between  *)
(* consecutive rows and none after the last                                *)
C6_Grid ==
    Returned =>
        LET ls == Lines
        IN  /\ Len(ls) = height
            /\ Len(out) > 0 /\ out[Len(out)] # LF
            /\ \A k \in 1 .. height :
                  LET gp == GlyphPositions(ls[k])
                  IN  /\ Len(gp) = width
                      /\ \A c \in 1 .. width :
                            ls[k][gp[c]] = C6_Glyph(getpixel(c - 1, k - 1))

C6_Witness ==
    /\ pc = "done" /\ width = 2 /\ height = 2 /\ args.no_color
    /\ out[1] # out[2] /\ out[3] = LF /\ out[4] # out[1]

C7_Custom == IF "custom_ramp" \in argv.given THEN argv.custom_ramp ELSE <<>>

(* C7: a non-empty --custom-ramp is the ramp, whatever --ramp says;        *)
(* otherwise --ramp default selects the 15 glyphs " .,:;i1tfLCG08@" and    *)
(* --ramp alt or no --ramp the 10 glyphs " .:-=+*#%@"; the ramp is never   *)
(* empty                                                                   *)
C7_RampSelection ==
    Past({"parse", "width", "ramp"}) =>
        /\ C7_Custom # <<>> => ramp = C7_Custom
        /\ (C7_Custom = <<>> /\ "ramp" \in argv.given /\ argv.ramp = "default")
              => /\ ramp = <<" ", ".", ",", ":", ";", "i", "1", "t", "f", "L",
                             "C", "G", "0", "8", "@">>
                 /\ Len(ramp) = 15
        /\ (C7_Custom = <<>> /\ ("ramp" \notin argv.given \/ argv.ramp = "alt"))
              => /\ ramp = <<" ", ".", ":", "-", "=", "+", "*", "#", "%", "@">>
                 /\ Len(ramp) = 10
        /\ Len(ramp) >= 1

C7_Witness ==
    /\ pc = "done" /\ "ramp" \in argv.given /\ argv.ramp = "default"
    /\ ramp = <<".", "o", "O">>

(* C9: a positive --width is the output width; with --width 0 or no        *)
(* --width it is the detected terminal width, 100 when detection fails;    *)
(* the width is always positive                                            *)
C9_WidthResolution ==
    Past({"parse", "width"}) =>
        /\ ("width" \in argv.given /\ argv.width > 0) => width = argv.width
        /\ ("width" \notin argv.given \/ argv.width = 0)
              => width = (IF tty.ok THEN tty.columns ELSE 100)
        /\ width > 0

C9_Witness ==
    /\ pc = "done" /\ "width" \in argv.given /\ argv.width = 0 /\ ~tty.ok
    /\ width = 100

---------------------------------------------------------------------------
Init == InitWith(CliScenarios)
InitTone == InitWith(ToneScenarios)
InitDim == InitWith(DimScenarios)

Spec == Init /\ [][Next]_vars
SpecTone == InitTone /\ [][Next]_vars
SpecDim == InitDim /\ [][Next]_vars

============================================================================
